---- MODULE Spec2Model ----
(***************************************************************************)
(* URL routing of the polls API (polls/urls.py).                           *)
(*                                                                         *)
(* The module under study builds one list, urlpatterns: four path()        *)
(* entries followed by the urls a DefaultRouter generates for the 'polls'  *)
(* registration.  A request is resolved against that list in order         *)
(* (first match wins), then the matched callback accepts or rejects the    *)
(* request method.  Strings are sequences of one-character strings so     *)
(* that the pattern matching is done character by character.               *)
(***************************************************************************)
EXTENDS Integers, Sequences, FiniteSets, TLC

VARIABLES pc, router, urlpatterns, conn, history

vars == <<pc, router, urlpatterns, conn, history>>

----------------------------------------------------------------------------
(* Bounds of the model *)

\* longest generated path segment (segments are words over SegAlphabet)
MaxSegLen == 1

----------------------------------------------------------------------------
(* Character strings *)

SL == <<"/">>
DOT == <<".">>
POLLS == <<"p", "o", "l", "l", "s">>
CHOICES == <<"c", "h", "o", "i", "c", "e", "s">>
VOTE == <<"v", "o", "t", "e">>
USERS == <<"u", "s", "e", "r", "s">>
LOGIN == <<"l", "o", "g", "i", "n">>
JSON == <<"j", "s", "o", "n">>

Digits == {"0", "1", "2", "3", "4", "5", "6", "7", "8", "9"}

Lower == {"a", "b", "c", "d", "e", "f", "g", "h", "i", "j", "k", "l", "m",
          "n", "o", "p", "q", "r", "s", "t", "u", "v", "w", "x", "y", "z"}

DigitVal(c) ==
    CASE c = "0" -> 0 [] c = "1" -> 1 [] c = "2" -> 2 [] c = "3" -> 3
      [] c = "4" -> 4 [] c = "5" -> 5 [] c = "6" -> 6 [] c = "7" -> 7
      [] c = "8" -> 8 [] c = "9" -> 9

\* int(value) of the int converter: decimal value of a digit string
RECURSIVE ToPython(_)
ToPython(s) ==
    IF s = <<>> THEN 0
    ELSE 10 * ToPython(SubSeq(s, 1, Len(s) - 1)) + DigitVal(s[Len(s)])

\* character classes of the regular expressions behind the patterns:
\*   "int"    [0-9]+      the int path converter
\*   "lookup" [^/.]+      the router's default lookup value
\*   "format" [a-z0-9]+   the format suffix
\* variant: a lookup value may run across slashes
InClassAcrossSlash(cls, c) ==
    CASE cls = "int" -> c \in Digits
      [] cls = "lookup" -> c # "."
      [] cls = "format" -> c \in Lower \cup Digits

InClass(cls, c) ==
    CASE cls = "int" -> c \in Digits
      [] cls = "lookup" -> c \notin {"/", "."}
      [] cls = "format" -> c \in Lower \cup Digits

----------------------------------------------------------------------------
(* Patterns *)

Lit(s) == [t |-> "lit", s |-> s, cls |-> "", name |-> ""]
Group(cls, name) == [t |-> "group", s |-> <<>>, cls |-> cls, name |-> name]
OptSlash == [t |-> "optslash", s |-> <<>>, cls |-> "", name |-> ""]

\* a captured argument as the callback receives it: the int converter hands
\* over an integer, a plain regex group hands over the matched text
IntArg(name, s) == [name |-> name, type |-> "int", int |-> ToPython(s), str |-> <<>>]
StrArg(name, s) == [name |-> name, type |-> "str", int |-> 0, str |-> s]

Capture(cls, name, s) ==
    IF cls = "int" THEN IntArg(name, s) ELSE StrArg(name, s)

NoMatch == [ok |-> FALSE, kwargs |-> <<>>]

IsPrefix(p, s) == Len(p) <= Len(s) /\ SubSeq(s, 1, Len(p)) = p

Drop(s, k) == SubSeq(s, k + 1, Len(s))

\* length of the longest prefix of s whose characters are all in cls
RECURSIVE Run(_, _)
Run(cls, s) ==
    IF s # <<>> /\ InClass(cls, s[1]) THEN 1 + Run(cls, Tail(s)) ELSE 0

\* anchored match of the element sequence es against the whole of s
\* (^...$), greedy groups with backtracking, as the regex engine does it
RECURSIVE Match(_, _), TryGroup(_, _, _)
Match(es, s) ==
    IF es = <<>> THEN
        IF s = <<>> THEN [ok |-> TRUE, kwargs |-> <<>>] ELSE NoMatch
    ELSE LET e == Head(es) IN
        CASE e.t = "lit" ->
               IF IsPrefix(e.s, s) THEN Match(Tail(es), Drop(s, Len(e.s)))
               ELSE NoMatch
          [] e.t = "group" -> TryGroup(es, s, Run(e.cls, s))
          [] e.t = "optslash" ->
               LET with == IF IsPrefix(SL, s) THEN Match(Tail(es), Tail(s))
                           ELSE NoMatch
               IN IF with.ok THEN with ELSE Match(Tail(es), s)

TryGroup(es, s, k) ==
    IF k = 0 THEN NoMatch
    ELSE LET rest == Match(Tail(es), Drop(s, k)) IN
         IF rest.ok
         THEN [ok |-> TRUE,
               kwargs |-> <<Capture(Head(es).cls, Head(es).name, SubSeq(s, 1, k))>>
                          \o rest.kwargs]
         ELSE TryGroup(es, s, k - 1)

----------------------------------------------------------------------------
(* Views (polls/apiviews.py) and what the framework makes of them *)

ChoiceList == "ChoiceList"
CreateVote == "CreateVote"
UserCreate == "UserCreate"
LoginView == "LoginView"
PollViewSet == "PollViewSet"
APIRootView == "APIRootView"

\* http methods a class based view implements, with the method it runs
HttpMethods(view) ==
    CASE view = ChoiceList -> ("GET" :> "get" @@ "POST" :> "post")
      [] view = CreateVote -> ("POST" :> "post")
      [] view = UserCreate -> ("POST" :> "post")
      [] view = LoginView -> ("POST" :> "post")
      [] view = APIRootView -> ("GET" :> "get")
      [] OTHER -> <<>>

\* actions a viewset implements
ViewSetActions(viewset) ==
    IF viewset = PollViewSet
    THEN {"list", "create", "retrieve", "update", "destroy"}
    ELSE {}

\* View.as_view(): the callback stored in a pattern
as_view(view) == [view |-> view, actions |-> HttpMethods(view)]

\* viewset.as_view(mapping), the mapping cut down to the actions the
\* viewset has (get_method_map)
as_view_mapping(viewset, mapping) ==
    [view |-> viewset,
     actions |-> [m \in {x \in DOMAIN mapping : mapping[x] \in ViewSetActions(viewset)}
                    |-> mapping[m]]]

\* path(route, view, name=...)
path(route, view, name) ==
    [route |-> route, callback |-> view, name |-> [base |-> name, suffix |-> ""]]

----------------------------------------------------------------------------
(* DefaultRouter *)

\* the two fixed routes of the router: url template, method mapping, name
ListRoute ==
    [detail |-> FALSE,
     mapping |-> ("GET" :> "list" @@ "POST" :> "create"),
     suffix |-> "-list"]

DetailRoute ==
    [detail |-> TRUE,
     mapping |-> ("GET" :> "retrieve" @@ "PUT" :> "update"
                  @@ "PATCH" :> "partial_update" @@ "DELETE" :> "destroy"),
     suffix |-> "-detail"]

Routes == <<ListRoute, DetailRoute>>

\* '^{prefix}{trailing_slash}$' and '^{prefix}/{lookup}{trailing_slash}$'
\* with lookup = (?P<pk>[^/.]+) and trailing_slash = '/'
RouteUrl(route, prefix) ==
    IF route.detail
    THEN <<Lit(prefix \o SL), Group("lookup", "pk"), Lit(SL)>>
    ELSE <<Lit(prefix \o SL)>>

\* urls of one registration: one entry per route that has a method left
RegistrationUrls(reg) ==
    LET entry(route) ==
            [route |-> RouteUrl(route, reg.prefix),
             callback |-> as_view_mapping(reg.viewset, route.mapping),
             name |-> [base |-> reg.base_name, suffix |-> route.suffix]]
        keep == SelectSeq(Routes,
                    LAMBDA r : DOMAIN as_view_mapping(reg.viewset, r.mapping).actions # {})
    IN [i \in 1..Len(keep) |-> entry(keep[i])]

RECURSIVE SimpleRouterUrls(_)
SimpleRouterUrls(registry) ==
    IF registry = <<>> THEN <<>>
    ELSE RegistrationUrls(Head(registry)) \o SimpleRouterUrls(Tail(registry))

\* the api root view at '^$'
RootUrl ==
    [route |-> <<>>, callback |-> as_view(APIRootView),
     name |-> [base |-> "api-root", suffix |-> ""]]

\* str.rstrip('/') on the text of a pattern
RECURSIVE RStripSlash(_)
RStripSlash(es) ==
    IF es = <<>> THEN <<>>
    ELSE LET last == es[Len(es)]
             init == SubSeq(es, 1, Len(es) - 1)
         IN IF last.t # "lit" THEN es
            ELSE IF last.s = <<>> THEN RStripSlash(init) \o <<last>>
            ELSE IF last.s[Len(last.s)] = "/"
                 THEN RStripSlash(init \o <<Lit(SubSeq(last.s, 1, Len(last.s) - 1))>>)
                 ELSE es

\* the suffixed copy of a pattern: r'\.(?P<format>[a-z0-9]+)/?$' replaces
\* the trailing slash and the end anchor
Suffixed(p) ==
    [p EXCEPT !.route = RStripSlash(p.route)
                        \o <<Lit(DOT), Group("format", "format"), OptSlash>>]

\* format_suffix_patterns: each pattern, followed by its suffixed copy
RECURSIVE format_suffix_patterns(_)
format_suffix_patterns(urls) ==
    IF urls = <<>> THEN <<>>
    ELSE <<Head(urls), Suffixed(Head(urls))>> \o format_suffix_patterns(Tail(urls))

\* router.urls
router_urls(registry) ==
    format_suffix_patterns(SimpleRouterUrls(registry) \o <<RootUrl>>)

----------------------------------------------------------------------------
(* Requests *)

Workers == {"w1", "w2"}

Methods == {"GET", "POST", "PUT", "DELETE"}

SegAlphabet == {"7", "a"}

\* words over SegAlphabet of length 1..n
RECURSIVE Words(_)
Words(n) ==
    IF n = 0 THEN {<<>>}
    ELSE Words(n - 1) \cup {Append(w, c) : w \in Words(n - 1), c \in SegAlphabet}

Segments == Words(MaxSegLen) \ {<<>>}

\* request paths: every segment at each parameter position, and fixed
\* paths for the collection, the format suffixes, the root and misses
Paths ==
    {SL \o POLLS \o SL \o s \o SL : s \in Segments}
    \cup {SL \o POLLS \o SL \o s \o SL \o CHOICES \o SL : s \in Segments}
    \cup {SL \o POLLS \o SL \o <<"3">> \o SL \o CHOICES \o SL \o s \o SL \o VOTE \o SL :
            s \in Segments}
    \cup {SL,
          SL \o POLLS \o SL,
          SL \o USERS \o SL,
          SL \o LOGIN \o SL,
          SL \o POLLS \o DOT \o JSON,
          SL \o DOT \o JSON,
          SL \o POLLS \o SL \o <<"9">> \o SL,
          SL \o POLLS \o SL \o <<"9">> \o DOT \o JSON,
          SL \o POLLS \o SL \o <<"a", "b", "c">> \o SL,
          SL \o POLLS \o SL \o <<"3">> \o SL \o CHOICES \o SL \o <<"5">> \o SL \o VOTE \o SL,
          SL \o POLLS \o SL \o <<"0", "1", "2">> \o SL \o CHOICES \o SL,
          SL \o POLLS \o SL \o <<"7", "a">> \o SL \o CHOICES \o SL,
          SL \o POLLS \o SL \o <<"7">> \o SL \o CHOICES}

Idle ==
    [stage |-> "idle", method |-> "", path_info |-> <<>>,
     match |-> [ok |-> FALSE, idx |-> 0, func |-> as_view(""),
                url_name |-> [base |-> "", suffix |-> ""], kwargs |-> <<>>],
     outcome |-> "", action |-> ""]

\* URLResolver.resolve: the leading slash, then the patterns in order; the
\* first pattern that matches makes the ResolverMatch
RECURSIVE ResolveFrom(_, _, _)
ResolveFrom(patterns, i, s) ==
    IF i > Len(patterns) THEN Idle.match
    ELSE LET m == Match(patterns[i].route, s) IN
         IF m.ok
         THEN [ok |-> TRUE, idx |-> i, func |-> patterns[i].callback,
               url_name |-> patterns[i].name, kwargs |-> m.kwargs]
         ELSE ResolveFrom(patterns, i + 1, s)

resolve(patterns, path_info) ==
    IF IsPrefix(SL, path_info) THEN ResolveFrom(patterns, 1, Tail(path_info))
    ELSE Idle.match

----------------------------------------------------------------------------
(* Loading polls/urls.py, then serving *)

Init ==
    /\ pc = "line7"
    /\ router = <<>>
    /\ urlpatterns = <<>>
    /\ conn = [w \in Workers |-> Idle]
    /\ history = <<>>

\* variant: the router is created but nothing is registered
RegisterNothing ==
    /\ pc = "line7"
    /\ pc' = "line10"
    /\ UNCHANGED <<router, urlpatterns, conn, history>>

\* router = DefaultRouter(); router.register('polls', PollViewSet, base_name='polls')
Register ==
    /\ pc = "line7"
    /\ router' = Append(router, [prefix |-> POLLS, viewset |-> PollViewSet,
                                 base_name |-> "polls"])
    /\ pc' = "line10"
    /\ UNCHANGED <<urlpatterns, conn, history>>

\* the four entries of the list literal
ExplicitRoutes ==
    << path(<<Lit(POLLS \o SL), Group("int", "pk"), Lit(SL \o CHOICES \o SL)>>,
            as_view(ChoiceList), "choice_list"),
       path(<<Lit(POLLS \o SL), Group("int", "pk"), Lit(SL \o CHOICES \o SL),
              Group("int", "choice_pk"), Lit(SL \o VOTE \o SL)>>,
            as_view(CreateVote), "create_vote"),
       path(<<Lit(USERS \o SL)>>, as_view(UserCreate), "user_create"),
       path(<<Lit(LOGIN \o SL)>>, as_view(LoginView), "login") >>

\* variant: the two entries left as comments in the list are live
DeclareWithPollRoutes ==
    /\ pc = "line10"
    /\ urlpatterns' = ExplicitRoutes \o
         << path(<<Lit(POLLS \o SL)>>, as_view("PollList"), "polls_list"),
            path(<<Lit(POLLS \o SL), Group("int", "pk"), Lit(SL)>>,
                 as_view("PollDetail"), "polls_detail") >>
    /\ pc' = "line19"
    /\ UNCHANGED <<router, conn, history>>

\* urlpatterns = [path(...), path(...), path(...), path(...)]
Declare ==
    /\ pc = "line10"
    /\ urlpatterns' = ExplicitRoutes
    /\ pc' = "line19"
    /\ UNCHANGED <<router, conn, history>>

\* variant: the urls of the router are put in front of the list
ExtendInFront ==
    /\ pc = "line19"
    /\ urlpatterns' = router_urls(router) \o urlpatterns
    /\ pc' = "loaded"
    /\ UNCHANGED <<router, conn, history>>

\* urlpatterns += router.urls
Extend ==
    /\ pc = "line19"
    /\ urlpatterns' = urlpatterns \o router_urls(router)
    /\ pc' = "loaded"
    /\ UNCHANGED <<router, conn, history>>

\* a request arrives at a free worker
Receive(w, method, path_info) ==
    /\ pc = "loaded"
    /\ conn[w].stage = "idle"
    /\ conn' = [conn EXCEPT ![w] = [Idle EXCEPT !.stage = "received",
                                                !.method = method,
                                                !.path_info = path_info]]
    /\ UNCHANGED <<pc, router, urlpatterns, history>>

\* the callback found by the resolver runs: the method of the view bound
\* to the request method, or http_method_not_allowed; no match is the 404
\* of the resolver.  wrong_method is the answer to an unbound method and
\* table the list of patterns the resolver is left with.
Serve(w, m, wrong_method, table) ==
    \E bound \in {m.ok /\ conn[w].method \in DOMAIN m.func.actions} :
        /\ conn' = [conn EXCEPT
              ![w].stage = "done",
              ![w].match = m,
              ![w].outcome = IF ~m.ok THEN "RouteNotFound"
                             ELSE IF bound THEN "Dispatched"
                             ELSE wrong_method,
              ![w].action = IF bound THEN m.func.actions[conn[w].method] ELSE ""]
        /\ history' = Append(history, w)
        /\ urlpatterns' = table
        /\ UNCHANGED <<pc, router>>

\* variant: an unbound method is answered like an unknown path
get_response_404(w) ==
    /\ conn[w].stage = "received"
    /\ \E m \in {resolve(urlpatterns, conn[w].path_info)} :
           Serve(w, m, "RouteNotFound", urlpatterns)

MoveToFront(t, i) == <<t[i]>> \o SubSeq(t, 1, i - 1) \o SubSeq(t, i + 1, Len(t))

\* variant: the resolver moves the pattern it matched to the front
get_response_mtf(w) ==
    /\ conn[w].stage = "received"
    /\ \E m \in {resolve(urlpatterns, conn[w].path_info)} :
           Serve(w, m, "MethodNotAllowed",
                 IF m.ok THEN MoveToFront(urlpatterns, m.idx) ELSE urlpatterns)

\* variant: login/ is only routed once user_create has run
get_response_ordered(w) ==
    /\ conn[w].stage = "received"
    /\ \E m \in {IF /\ conn[w].path_info = SL \o LOGIN \o SL
                    /\ \A i \in 1..Len(history) :
                          conn[history[i]].match.url_name.base # "user_create"
                 THEN Idle.match
                 ELSE resolve(urlpatterns, conn[w].path_info)} :
           Serve(w, m, "MethodNotAllowed", urlpatterns)

\* get_response: resolve the path against urlpatterns, then run the callback
get_response(w) ==
    /\ conn[w].stage = "received"
    /\ \E m \in {resolve(urlpatterns, conn[w].path_info)} :
           Serve(w, m, "MethodNotAllowed", urlpatterns)

\* the response leaves; the worker is free again
Respond(w) ==
    /\ conn[w].stage = "done"
    /\ conn' = [conn EXCEPT ![w] = Idle]
    /\ history' = SelectSeq(history, LAMBDA v : v # w)
    /\ UNCHANGED <<pc, router, urlpatterns>>

Next ==
    \/ Register
    \/ Declare
    \/ Extend
    \/ \E w \in Workers, method \in Methods, path_info \in Paths :
           Receive(w, method, path_info)
    \/ \E w \in Workers : get_response(w)
    \/ \E w \in Workers : Respond(w)

Spec == Init /\ [][Next]_vars

----------------------------------------------------------------------------
(* Vocabulary of the properties *)

Done(w) == conn[w].stage = "done"

Dispatched(w) == Done(w) /\ conn[w].outcome = "Dispatched"

P(segs) == SL \o segs

IsDigits(s) == s # <<>> /\ \A i \in 1..Len(s) : s[i] \in Digits

\* the pieces of a path between its slashes, leading slash dropped:
\* /polls/9/ gives <<polls, 9, <<>>>>
RECURSIVE Pieces(_, _)
Pieces(s, cur) ==
    IF s = <<>> THEN <<cur>>
    ELSE IF Head(s) = "/" THEN <<cur>> \o Pieces(Tail(s), <<>>)
    ELSE Pieces(Tail(s), Append(cur, Head(s)))

PathPieces(path_info) == Pieces(Tail(path_info), <<>>)

\* the text captured for a parameter, whatever its type
ArgNames(kwargs) == [i \in 1..Len(kwargs) |-> kwargs[i].name]

IntKwargs(names, values) ==
    [i \in 1..Len(names) |->
        [name |-> names[i], type |-> "int", int |-> values[i], str |-> <<>>]]

PollsChoices(s) == P(POLLS \o SL \o s \o SL \o CHOICES \o SL)
PollsVote(s, t) == P(POLLS \o SL \o s \o SL \o CHOICES \o SL \o t \o SL \o VOTE \o SL)
PollsDetail(s) == P(POLLS \o SL \o s \o SL)
PollsList == P(POLLS \o SL)

ExplicitNames == {"choice_list", "create_vote", "user_create", "login"}

----------------------------------------------------------------------------
(* C1 *)

\* what a path with integer parameters must select, read off its pieces
ExpectedView(ps) ==
    CASE Len(ps) = 4 /\ ps[1] = POLLS /\ IsDigits(ps[2]) /\ ps[3] = CHOICES
            /\ ps[4] = <<>> -> ChoiceList
      [] Len(ps) = 6 /\ ps[1] = POLLS /\ IsDigits(ps[2]) /\ ps[3] = CHOICES
            /\ IsDigits(ps[4]) /\ ps[5] = VOTE /\ ps[6] = <<>> -> CreateVote
      [] Len(ps) = 3 /\ ps[1] = POLLS /\ IsDigits(ps[2]) /\ ps[3] = <<>> -> PollViewSet
      [] ps = <<POLLS, <<>>>> -> PollViewSet
      [] ps = <<USERS, <<>>>> -> UserCreate
      [] ps = <<LOGIN, <<>>>> -> LoginView
      [] OTHER -> ""

ExpectedKwargs(ps) ==
    CASE ExpectedView(ps) = ChoiceList -> IntKwargs(<<"pk">>, <<ToPython(ps[2])>>)
      [] ExpectedView(ps) = CreateVote ->
            IntKwargs(<<"pk", "choice_pk">>, <<ToPython(ps[2]), ToPython(ps[4])>>)
      [] ExpectedView(ps) = PollViewSet /\ Len(ps) = 3 ->
            IntKwargs(<<"pk">>, <<ToPython(ps[2])>>)
      [] OTHER -> <<>>

\* C1: every path that fits a registered pattern with integer parameters
\* is resolved to that pattern's view, and the view receives exactly those
\* parameters as integers (GET /polls/7/choices/ gives ChoiceList pk=7,
\* POST /polls/3/choices/5/vote/ gives CreateVote pk=3 choice_pk=5).
C1_IntegerParamsDispatch ==
    \A w \in Workers :
        LET ps == PathPieces(conn[w].path_info) IN
        (Done(w) /\ ExpectedView(ps) # "") =>
            /\ conn[w].match.ok
            /\ conn[w].match.func.view = ExpectedView(ps)
            /\ conn[w].match.kwargs = ExpectedKwargs(ps)

----------------------------------------------------------------------------
(* C2 *)

\* a segment that is not an integer stands where a pattern has a parameter
NonIntegerParam(ps) ==
    \/ Len(ps) = 3 /\ ps[1] = POLLS /\ ~IsDigits(ps[2]) /\ ps[3] = <<>>
    \/ Len(ps) = 4 /\ ps[1] = POLLS /\ ~IsDigits(ps[2]) /\ ps[3] = CHOICES
         /\ ps[4] = <<>>
    \/ Len(ps) = 6 /\ ps[1] = POLLS /\ IsDigits(ps[2]) /\ ps[3] = CHOICES
         /\ ~IsDigits(ps[4]) /\ ps[5] = VOTE /\ ps[6] = <<>>

\* C2: a path with a non-integer segment at a parameter position matches
\* no route: /polls/s/, /polls/s/choices/ and /polls/3/choices/s/vote/ all
\* end in RouteNotFound, GET /polls/abc/ included.
C2_NonIntegerNotFound ==
    \A w \in Workers :
        (Done(w) /\ NonIntegerParam(PathPieces(conn[w].path_info))) =>
            conn[w].outcome = "RouteNotFound"

----------------------------------------------------------------------------
(* C3 *)

\* the methods each route accepts, by its name
RouteMethods(url_name) ==
    CASE url_name.base = "choice_list" -> {"GET", "POST"}
      [] url_name.base \in {"create_vote", "user_create", "login"} -> {"POST"}
      [] url_name.base = "polls" /\ url_name.suffix = "-list" -> {"GET", "POST"}
      [] url_name.base = "polls" /\ url_name.suffix = "-detail" -> {"GET", "PUT", "DELETE"}
      [] url_name.base = "api-root" -> {"GET"}
      [] OTHER -> {}

\* C3: a request whose path matched a pattern but whose method the route
\* does not accept ends in MethodNotAllowed: never RouteNotFound, and no
\* method of the view is run.
C3_MethodNotAllowed ==
    \A w \in Workers :
        (Done(w) /\ conn[w].match.ok
            /\ conn[w].method \notin RouteMethods(conn[w].match.url_name)) =>
            /\ conn[w].outcome = "MethodNotAllowed"
            /\ conn[w].action = ""

\* DELETE on the vote route and GET on /login/ were both answered
C3_Witness ==
    /\ Done("w1") /\ conn["w1"].method = "DELETE"
    /\ conn["w1"].path_info = PollsVote(<<"3">>, <<"5">>)
    /\ conn["w1"].outcome = "MethodNotAllowed"
    /\ Done("w2") /\ conn["w2"].method = "GET"
    /\ conn["w2"].path_info = P(LOGIN \o SL)
    /\ conn["w2"].outcome = "MethodNotAllowed"

----------------------------------------------------------------------------
(* C4 *)

Matches(i, path_info) ==
    IsPrefix(SL, path_info) /\ Match(urlpatterns[i].route, Tail(path_info)).ok

\* C4: the loaded table is the four explicit routes followed by the routes
\* of the router; the pattern selected for a request is the first one in
\* that order that matches, so where an explicit and a generated pattern
\* both match the explicit one is selected.
C4_FirstMatchExplicitFirst ==
    pc = "loaded" =>
        /\ Len(urlpatterns) > 4
        /\ \A i \in 1..Len(urlpatterns) :
               (urlpatterns[i].name.base \in ExplicitNames) <=> (i <= 4)
        /\ \A w \in Workers : Done(w) =>
               /\ conn[w].match.ok =>
                     /\ Matches(conn[w].match.idx, conn[w].path_info)
                     /\ \A j \in 1..(conn[w].match.idx - 1) :
                            ~Matches(j, conn[w].path_info)
               /\ ~conn[w].match.ok =>
                     \A j \in 1..Len(urlpatterns) : ~Matches(j, conn[w].path_info)
               /\ (\E i \in 1..4 : Matches(i, conn[w].path_info)) =>
                     conn[w].match.func.view \in {ChoiceList, CreateVote, UserCreate, LoginView}

\* a request reached a generated route after every explicit one was tried,
\* while another was taken by an explicit route
C4_Witness ==
    /\ Done("w1") /\ conn["w1"].match.ok /\ conn["w1"].match.idx > 4
    /\ Done("w2") /\ conn["w2"].match.ok /\ conn["w2"].match.idx = 2

----------------------------------------------------------------------------
(* C5 *)

\* the table of the variant without the router: what is left of
\* urlpatterns when the urls of the router are taken off its end
WithoutRouter == SubSeq(urlpatterns, 1, Len(urlpatterns) - Len(router_urls(router)))

\* the parameter carries the id written in the path
CarriesId(arg, name, digits) ==
    /\ arg.name = name
    /\ \/ arg.type = "int" /\ arg.int = ToPython(digits)
       \/ arg.type = "str" /\ arg.str = digits

----------------------------------------------------------------------------
(* C6 *)

SixHandlers ==
    {[base |-> "polls", suffix |-> "-list"], [base |-> "polls", suffix |-> "-detail"],
     [base |-> "choice_list", suffix |-> ""], [base |-> "create_vote", suffix |-> ""],
     [base |-> "user_create", suffix |-> ""], [base |-> "login", suffix |-> ""]}

ApiRoot == [base |-> "api-root", suffix |-> ""]

Outcomes == {"Dispatched", "RouteNotFound", "MethodNotAllowed"}

\* the documented surface: /polls/, /polls/{id}/, /polls/{id}/choices/,
\* /polls/{id}/choices/{id}/vote/, /users/, /login/ with integer ids
Documented(ps) == ExpectedView(ps) # ""

IsFormat(s) == s # <<>> /\ \A i \in 1..Len(s) : s[i] \in Lower \cup Digits

IsLookup(s) == s # <<>> /\ \A i \in 1..Len(s) : s[i] \notin {"/", "."}

\* stem.format, the stem satisfying Stem(_)
Suffixes(seg, Stem(_)) ==
    \E k \in 1..Len(seg) :
        /\ seg[k] = "."
        /\ Stem(SubSeq(seg, 1, k - 1))
        /\ IsFormat(Drop(seg, k))

\* ps without an empty last piece (the optional slash after a format)
Unslashed(ps) ==
    IF Len(ps) > 1 /\ ps[Len(ps)] = <<>> THEN SubSeq(ps, 1, Len(ps) - 1) ELSE ps

\* what the loaded table serves beyond the documented surface
Undocumented(ps) ==
    \/ ps = << <<>> >>
    \/ Len(ps) = 3 /\ ps[1] = POLLS /\ IsLookup(ps[2]) /\ ps[3] = <<>>
    \/ LET us == Unslashed(ps) IN
         \/ Len(us) = 1 /\ Suffixes(us[1], LAMBDA stem : stem = <<>>)
         \/ Len(us) = 1 /\ Suffixes(us[1], LAMBDA stem : stem = POLLS)
         \/ Len(us) = 2 /\ us[1] = POLLS /\ Suffixes(us[2], IsLookup)

----------------------------------------------------------------------------
(* C7 *)

----------------------------------------------------------------------------
(* C8 *)

----------------------------------------------------------------------------
(* C10 *)

Matching(path_info) == {i \in 1..Len(urlpatterns) : Matches(i, path_info)}

Reverse(t) == [i \in 1..Len(t) |-> t[Len(t) + 1 - i]]

\* C10: no path is matched by two entries of the loaded table, and the
\* view and arguments selected are the same when the table is tried in
\* the opposite order.
C10_PatternsDisjoint ==
    pc = "loaded" =>
        \A w \in Workers : Done(w) =>
            /\ Cardinality(Matching(conn[w].path_info)) <= 1
            /\ LET back == resolve(Reverse(urlpatterns), conn[w].path_info) IN
               /\ back.ok = conn[w].match.ok
               /\ back.func = conn[w].match.func
               /\ back.kwargs = conn[w].match.kwargs

\* a poll detail path and its format-suffixed form were each matched by
\* one pattern
C10_Witness ==
    /\ Done("w1") /\ conn["w1"].path_info = PollsDetail(<<"9">>)
    /\ Cardinality(Matching(conn["w1"].path_info)) = 1
    /\ Done("w2") /\ conn["w2"].path_info = P(POLLS \o SL \o <<"9">> \o DOT \o JSON)
    /\ Cardinality(Matching(conn["w2"].path_info)) = 1

====
